---- MODULE Spec2Model ----
(***************************************************************************)
(* Swarm & Bee verified download endpoint (functions/api/download.js).     *)
(*                                                                         *)
(* handleRequest is an async function with three suspension points: the    *)
(* fetch to the payment processor, the read of the JSON body of its        *)
(* answer, and the DATA_VAULT.get read.  JavaScript runs the code between  *)
(* two awaits without interruption, so the model has one action per        *)
(* stretch of synchronous code: Start, FetchSettles, JsonSettles and       *)
(* GetSettles.  Each invocation of the handler is one element of           *)
(* DOMAIN pc; the handler keeps no state between invocations.              *)
(***************************************************************************)
EXTENDS Naturals, Sequences, FiniteSets

VARIABLES
  request,     \* request[r]: method, session_id and product query parameters
  pc,          \* pc[r]: where invocation r is suspended, or how it ended
  stripeRes,   \* stripeRes[r]: the processor's answer handed to invocation r
  productSlug, \* productSlug[r]: the effective slug (the local of that name)
  r2Key,       \* r2Key[r]: the key passed to DATA_VAULT.get
  response,    \* response[r]: the Response the handler returned
  log,         \* log[r]: the steps invocation r has taken, in order
  stripe,      \* the processor: the answer it gives for each session id asked
  vault        \* storage: the outcome of get for each key asked

vars == <<request, pc, stripeRes, productSlug, r2Key, response, log, stripe, vault>>

-----------------------------------------------------------------------------
(* JavaScript values.  A value is a record with a type tag t and, for a    *)
(* string, its text s; for a function or object, s is its name.  The text  *)
(* of a session id is the sequence of its characters, so that the pattern  *)
(* can be matched against it; every other text is a string.                *)

Undefined == [t |-> "undefined", s |-> ""]

Null == [t |-> "null", s |-> ""]

Str(x) == [t |-> "string", s |-> x]

Fn(name) == [t |-> "function", s |-> name]

Obj(name) == [t |-> "object", s |-> name]

\* ToBoolean: what `!v` and `a && b` test.
Truthy(v) ==
  CASE v.t = "undefined" -> FALSE
    [] v.t = "null" -> FALSE
    [] v.t = "string" -> Len(v.s) > 0
    [] OTHER -> TRUE

\* ToString, as a template literal `${v}` applies it.
ToString(v) ==
  CASE v.t = "string" -> v.s
    [] v.t = "undefined" -> "undefined"
    [] v.t = "null" -> "null"
    [] v.t = "function" -> "function " \o v.s \o "() { [native code] }"
    [] OTHER -> "[object Object]"

-----------------------------------------------------------------------------
(* The product catalog (PRODUCT_MAP), an object literal.                   *)

CatalogKeys ==
  { "platinum-sample-pack", "specialty-cardiology", "specialty-radiology-mri",
    "specialty-emergency-medicine", "specialty-psychiatry",
    "specialty-pharmacology", "specialty-oncology", "specialty-neurology",
    "specialty-pediatrics", "specialty-womens-health", "full-platinum-vault",
    "enterprise-annual", "pro-monthly-5k", "pro-monthly-10k" }

CatalogFile(slug) ==
  CASE slug = "platinum-sample-pack" -> "Platinum_Sample_Pack.zip"
    [] slug = "specialty-cardiology" -> "Specialty_Cardiology.zip"
    [] slug = "specialty-radiology-mri" -> "Specialty_Radiology_MRI.zip"
    [] slug = "specialty-emergency-medicine" -> "Specialty_Emergency_Medicine.zip"
    [] slug = "specialty-psychiatry" -> "Specialty_Psychiatry.zip"
    [] slug = "specialty-pharmacology" -> "Specialty_Pharmacology_Drug_Safety.zip"
    [] slug = "specialty-oncology" -> "Specialty_Oncology.zip"
    [] slug = "specialty-neurology" -> "Specialty_Neurology.zip"
    [] slug = "specialty-pediatrics" -> "Specialty_Pediatrics.zip"
    [] slug = "specialty-womens-health" -> "Specialty_Womens_Health.zip"
    [] slug = "full-platinum-vault" -> "Full_Platinum_Vault.zip"
    [] slug = "enterprise-annual" -> "Enterprise_Annual.zip"
    [] slug = "pro-monthly-5k" -> "Full_Platinum_Vault.zip"
    [] slug = "pro-monthly-10k" -> "Full_Platinum_Vault.zip"

\* The properties an object literal inherits from Object.prototype: the
\* methods, and the __proto__ accessor, which yields Object.prototype itself.
ObjectPrototypeMethods ==
  { "constructor", "toString", "toLocaleString", "valueOf", "hasOwnProperty",
    "isPrototypeOf", "propertyIsEnumerable", "__defineGetter__",
    "__defineSetter__", "__lookupGetter__", "__lookupSetter__" }

\* The name a native function prints: the constructor property is the
\* function Object, every other method is named after its property.
NativeName(prop) == IF prop = "constructor" THEN "Object" ELSE prop

\* PRODUCT_MAP[key]: the property read, own properties first, then the
\* prototype chain, undefined when neither has the key.
PRODUCT_MAP(key) ==
  IF key \in CatalogKeys THEN Str(CatalogFile(key))
  ELSE IF key \in ObjectPrototypeMethods THEN Fn(NativeName(key))
  ELSE IF key = "__proto__" THEN Obj("Object.prototype")
  ELSE Undefined

-----------------------------------------------------------------------------
(* isValidSessionId: /^cs_(test|live)_[a-zA-Z0-9]{10,}$/.test(id).         *)
(* A session id is the sequence of its characters.                         *)

Lower ==
  { "a", "b", "c", "d", "e", "f", "g", "h", "i", "j", "k", "l", "m",
    "n", "o", "p", "q", "r", "s", "t", "u", "v", "w", "x", "y", "z" }

Upper ==
  { "A", "B", "C", "D", "E", "F", "G", "H", "I", "J", "K", "L", "M",
    "N", "O", "P", "Q", "R", "S", "T", "U", "V", "W", "X", "Y", "Z" }

Digit == { "0", "1", "2", "3", "4", "5", "6", "7", "8", "9" }

AlNum == Lower \cup Upper \cup Digit

CsTest == << "c", "s", "_", "t", "e", "s", "t", "_" >>

CsLive == << "c", "s", "_", "l", "i", "v", "e", "_" >>

\* The {10,} of the pattern.
MinTailLen == 10

\* The pattern with its {10,} replaced by {9,}.
isValidSessionIdShort(id) ==
  \E p \in { CsTest, CsLive } :
    /\ Len(id) >= Len(p) + (MinTailLen - 1)
    /\ SubSeq(id, 1, Len(p)) = p
    /\ \A i \in (Len(p) + 1)..Len(id) : id[i] \in AlNum

isValidSessionId(id) ==
  \E p \in { CsTest, CsLive } :
    /\ Len(id) >= Len(p) + MinTailLen
    /\ SubSeq(id, 1, Len(p)) = p
    /\ \A i \in (Len(p) + 1)..Len(id) : id[i] \in AlNum

-----------------------------------------------------------------------------
(* Responses.  A body is empty (null), a JSON object (the set of its       *)
(* <<name, value>> members) or the byte stream of a stored object.         *)

EmptyBody == [kind |-> "empty", json |-> {}, stream |-> ""]

JsonBody(members) == [kind |-> "json", json |-> members, stream |-> ""]

StreamBody(key) == [kind |-> "stream", json |-> {}, stream |-> key]

NoResponse == [status |-> 0, body |-> EmptyBody, headers |-> {}]

\* new Response(isHead ? null : JSON.stringify({ error: msg }),
\*              { status, headers: { "Content-Type": "application/json" } })
ErrorResponse(isHead, status, msg) ==
  [ status |-> status,
    body |-> IF isHead THEN EmptyBody ELSE JsonBody({ << "error", msg >> }),
    headers |-> { << "Content-Type", "application/json" >> } ]

HeadOk ==
  [ status |-> 200,
    body |-> EmptyBody,
    headers |-> { << "Content-Type", "application/zip" >> } ]

\* new Response(object.body, { headers: ... }): the status defaults to 200.
StreamResponse(key, filename) ==
  [ status |-> 200,
    body |-> StreamBody(key),
    headers |->
      { << "Content-Type", "application/zip" >>,
        << "Content-Disposition",
           "attachment; filename=\"" \o ToString(filename) \o "\"" >>,
        << "Cache-Control", "no-store" >> } ]

-----------------------------------------------------------------------------
(* The synchronous stretches of handleRequest.  Each yields a record:      *)
(* to, the next position ("done" once a Response is returned, "thrown"     *)
(* once an exception leaves the handler); response; slug and key, the      *)
(* locals productSlug and r2Key; ev, the steps taken, in order.            *)

Outcome(to, resp, slug, key, ev) ==
  [to |-> to, response |-> resp, slug |-> slug, key |-> key, ev |-> ev]

\* Lines 36-58: the session id is read and checked, and the fetch started.
StartStep(req) ==
  LET isHead == req.method = "HEAD"
      sessionId == req.session_id
  IN  IF ~Truthy(sessionId) \/ ~isValidSessionId(sessionId.s)
      THEN Outcome("done", ErrorResponse(isHead, 400, "Invalid or missing session"),
                   Undefined, "", << "InvalidSession" >>)
      ELSE Outcome("awaitFetch", NoResponse, Undefined, "",
                   << "format_ok", "fetch" >>)

\* FetchStep without the test of stripeRes.ok.
FetchStepNoOkCheck(req, answer) ==
  LET isHead == req.method = "HEAD"
  IN  IF answer.net = "down"
      THEN Outcome("done", ErrorResponse(isHead, 500, "Verification failed"),
                   Undefined, "", << "VerificationFailed" >>)
      ELSE Outcome("awaitJson", NoResponse, Undefined, "", << "fetch_ok" >>)

\* Lines 51-73, once the fetch has settled: a rejection is caught (500), a
\* response that is not ok gives 403, an ok response has its body read.
FetchStep(req, answer) ==
  LET isHead == req.method = "HEAD"
  IN  IF answer.net = "down"
      THEN Outcome("done", ErrorResponse(isHead, 500, "Verification failed"),
                   Undefined, "", << "VerificationFailed" >>)
      ELSE IF ~answer.ok
      THEN Outcome("done", ErrorResponse(isHead, 403, "Invalid session"),
                   Undefined, "", << "SessionNotFound" >>)
      ELSE Outcome("awaitJson", NoResponse, Undefined, "", << "fetch_ok" >>)

\* EffectiveSlug with the precedence reversed: the query's slug when given.
EffectiveSlugQueryFirst(product, session) ==
  IF Truthy(product)
  THEN product
  ELSE IF Truthy(session.metadata) /\ Truthy(session.metadata.product_slug)
  THEN session.metadata.product_slug
  ELSE product

\* Lines 83-89: the slug of the query, unless the session's metadata has one.
EffectiveSlug(product, session) ==
  IF Truthy(session.metadata) /\ Truthy(session.metadata.product_slug)
  THEN session.metadata.product_slug
  ELSE product

\* Line 91, negated: productSlug && PRODUCT_MAP[productSlug].
KnownProduct(slug) == Truthy(slug) /\ Truthy(PRODUCT_MAP(slug.s))

\* Line 106.
R2Key(slug) == "products/" \o ToString(PRODUCT_MAP(slug.s))

\* CatalogStep without the HEAD short cut.
CatalogStepNoHeadReturn(isHead, slug) ==
  IF ~KnownProduct(slug)
  THEN Outcome("done", ErrorResponse(isHead, 400, "Unknown product"),
               slug, "", << "UnknownProduct" >>)
  ELSE Outcome("awaitGet", NoResponse, slug, R2Key(slug),
               << "catalog_ok", "get" >>)

\* Lines 91-110: the catalog check, the HEAD short cut, the storage read.
CatalogStep(isHead, slug) ==
  IF ~KnownProduct(slug)
  THEN Outcome("done", ErrorResponse(isHead, 400, "Unknown product"),
               slug, "", << "UnknownProduct" >>)
  ELSE IF isHead
  THEN Outcome("done", HeadOk, slug, "", << "catalog_ok" >>)
  ELSE Outcome("awaitGet", NoResponse, slug, R2Key(slug),
               << "catalog_ok", "get" >>)

\* VerifiedStep without the payment status check.
VerifiedStepNoPaymentCheck(req, session) ==
  LET isHead == req.method = "HEAD"
      next == CatalogStep(isHead, EffectiveSlug(req.product, session))
  IN  IF session.t = "null"
      THEN Outcome("thrown", NoResponse, Undefined, "", << "TypeError" >>)
      ELSE [next EXCEPT !.ev = << "paid" >> \o next.ev]

\* VerifiedStep with the catalog check made before the payment status check.
VerifiedStepCatalogFirst(req, session) ==
  LET isHead == req.method = "HEAD"
      next == CatalogStep(isHead, EffectiveSlug(req.product, session))
  IN  IF session.t = "null"
      THEN Outcome("thrown", NoResponse, Undefined, "", << "TypeError" >>)
      ELSE IF next.ev = << "UnknownProduct" >>
      THEN next
      ELSE IF session.payment_status # Str("paid")
      THEN Outcome("done", ErrorResponse(isHead, 402, "Payment not completed"),
                   Undefined, "", << "PaymentIncomplete" >>)
      ELSE [next EXCEPT !.ev = << "paid" >> \o next.ev]

\* Lines 75-110, the body having been parsed into session.  Reading a
\* property of null throws a TypeError, outside the try block.
VerifiedStep(req, session) ==
  LET isHead == req.method = "HEAD"
      next == CatalogStep(isHead, EffectiveSlug(req.product, session))
  IN  IF session.t = "null"
      THEN Outcome("thrown", NoResponse, Undefined, "", << "TypeError" >>)
      ELSE IF session.payment_status # Str("paid")
      THEN Outcome("done", ErrorResponse(isHead, 402, "Payment not completed"),
                   Undefined, "", << "PaymentIncomplete" >>)
      ELSE [next EXCEPT !.ev = << "paid" >> \o next.ev]

\* Lines 67-110, once stripeRes.json() has settled: a body that does not
\* parse rejects, inside the try block (500).
JsonStep(req, answer) ==
  LET isHead == req.method = "HEAD"
      next == VerifiedStep(req, answer.json)
  IN  IF ~answer.parses
      THEN Outcome("done", ErrorResponse(isHead, 500, "Verification failed"),
                   Undefined, "", << "VerificationFailed" >>)
      ELSE [next EXCEPT !.ev = << "json_ok" >> \o next.ev]

\* Lines 110-126, once DATA_VAULT.get has settled: a rejection leaves the
\* handler, null gives 404, an object is streamed.
GetStep(slug, key, got) ==
  IF got = "rejects"
  THEN Outcome("thrown", NoResponse, slug, key, << "StorageError" >>)
  ELSE IF got = "null"
  THEN Outcome("done", ErrorResponse(FALSE, 404, "Product file not found"),
               slug, key, << "ProductNotFound" >>)
  ELSE Outcome("done", StreamResponse(key, PRODUCT_MAP(slug.s)), slug, key,
               << "stream" >>)

-----------------------------------------------------------------------------
(* The inputs: requests, the processor's answers, storage's outcomes.      *)

\* The longest run of characters after the prefix of a session id.
MaxTailLen == 11

\* n characters, all "a" but for c at position k (k = 0: all "a").
TailOf(n, k, c) == [i \in 1..n |-> IF i = k THEN c ELSE "a"]

TailLens == { 0 } \cup ((MinTailLen - 2)..MaxTailLen)

Tails ==
  UNION { { TailOf(n, 0, "a"), TailOf(n, 1, "Z"), TailOf(n, n, "7"), TailOf(n, n, "_") }
            \cup { TailOf(n, k, "-") : k \in 1..n } : n \in TailLens }

Prefixes ==
  { CsTest, CsLive,
    << "c", "s", "_", "p", "r", "o", "d", "_" >>,
    << "c", "s", "_", "t", "e", "s", "t" >>,
    << "x", "c", "s", "_", "t", "e", "s", "t", "_" >>,
    << "C", "S", "_", "T", "E", "S", "T", "_" >>,
    << >> }

\* url.searchParams.get("session_id"): null when the parameter is absent.
SessionIds == { Null } \cup { Str(p \o t) : p \in Prefixes, t \in Tails }

Slugs ==
  CatalogKeys \cup { "", "no-such-product", "constructor", "__proto__" }

\* url.searchParams.get("product").
Products == { Null } \cup { Str(x) : x \in Slugs }

Methods == { "GET", "HEAD" }

Requests ==
  [method : Methods, session_id : SessionIds, product : Products]

\* session.metadata: missing, null, or an object with or without product_slug.
Metadatas ==
  { [t |-> "undefined", s |-> "", product_slug |-> Undefined],
    [t |-> "null", s |-> "", product_slug |-> Undefined] }
    \cup { [t |-> "object", s |-> "metadata", product_slug |-> v] :
             v \in { Undefined } \cup { Str(x) : x \in Slugs } }

\* What stripeRes.json() can resolve to: null, a number, or a record.
Sessions ==
  { [t |-> "null", s |-> "", payment_status |-> Undefined,
     metadata |-> [t |-> "undefined", s |-> "", product_slug |-> Undefined]],
    [t |-> "number", s |-> "", payment_status |-> Undefined,
     metadata |-> [t |-> "undefined", s |-> "", product_slug |-> Undefined]] }
    \cup [ t : { "object" }, s : { "session" },
           payment_status : { Undefined, Str("paid"), Str("unpaid") },
           metadata : Metadatas ]

NoSession ==
  [t |-> "undefined", s |-> "", payment_status |-> Undefined,
   metadata |-> [t |-> "undefined", s |-> "", product_slug |-> Undefined]]

\* What the fetch can settle with: a rejection; a response that is not ok;
\* an ok response whose body does not parse, or parses to a session.
NoAnswer == [net |-> "none", ok |-> FALSE, parses |-> FALSE, json |-> NoSession]

StripeAnswers ==
  { [net |-> "down", ok |-> FALSE, parses |-> FALSE, json |-> NoSession],
    [net |-> "up", ok |-> FALSE, parses |-> TRUE, json |-> NoSession],
    [net |-> "up", ok |-> TRUE, parses |-> FALSE, json |-> NoSession] }
    \cup [ net : { "up" }, ok : { TRUE }, parses : { TRUE }, json : Sessions ]

\* What DATA_VAULT.get can settle with.
GetOutcomes == { "object", "null", "rejects" }

-----------------------------------------------------------------------------
(* The state machine.                                                      *)

Become(r, out) ==
  /\ pc' = [pc EXCEPT ![r] = out.to]
  /\ response' = [response EXCEPT ![r] = out.response]
  /\ productSlug' = [productSlug EXCEPT ![r] = out.slug]
  /\ r2Key' = [r2Key EXCEPT ![r] = out.key]
  /\ log' = [log EXCEPT ![r] = @ \o out.ev]

InitOf(reqs) ==
  /\ request = reqs
  /\ pc = [r \in DOMAIN reqs |-> "start"]
  /\ stripeRes = [r \in DOMAIN reqs |-> NoAnswer]
  /\ productSlug = [r \in DOMAIN reqs |-> Undefined]
  /\ r2Key = [r \in DOMAIN reqs |-> ""]
  /\ response = [r \in DOMAIN reqs |-> NoResponse]
  /\ log = [r \in DOMAIN reqs |-> << >>]
  /\ stripe = { }
  /\ vault = { }

\* One request, of any method, session id and product.
Init == \E reqs \in [{ "r1" } -> Requests] : InitOf(reqs)

Start(r) ==
  /\ pc[r] = "start"
  /\ Become(r, StartStep(request[r]))
  /\ UNCHANGED << request, stripeRes, stripe, vault >>

\* The processor answers the lookup of a session id; a session id it has
\* answered before gets the same answer.
FetchSettles(r) ==
  /\ pc[r] = "awaitFetch"
  /\ \E answer \in StripeAnswers :
       /\ \A e \in stripe : e.id = request[r].session_id => e.answer = answer
       /\ stripe' = stripe \cup { [id |-> request[r].session_id, answer |-> answer] }
       /\ stripeRes' = [stripeRes EXCEPT ![r] = answer]
       /\ Become(r, FetchStep(request[r], answer))
  /\ UNCHANGED << request, vault >>

JsonSettles(r) ==
  /\ pc[r] = "awaitJson"
  /\ Become(r, JsonStep(request[r], stripeRes[r]))
  /\ UNCHANGED << request, stripeRes, stripe, vault >>

\* Storage answers the read of a key; a key it has answered before gets the
\* same answer.
GetSettles(r) ==
  /\ pc[r] = "awaitGet"
  /\ \E got \in GetOutcomes :
       /\ \A e \in vault : e.key = r2Key[r] => e.got = got
       /\ vault' = vault \cup { [key |-> r2Key[r], got |-> got] }
       /\ Become(r, GetStep(productSlug[r], r2Key[r], got))
  /\ UNCHANGED << request, stripeRes, stripe >>

Next ==
  \/ \E r \in DOMAIN pc : Start(r)
  \/ \E r \in DOMAIN pc : FetchSettles(r)
  \/ \E r \in DOMAIN pc : JsonSettles(r)
  \/ \E r \in DOMAIN pc : GetSettles(r)

Spec == Init /\ [][Next]_vars

\* Two invocations of the handler, for the same method and the same session
\* id, whose product parameters are free.
PairSessionIds ==
  { Str(CsTest \o TailOf(MinTailLen, 0, "a")),
    Str(CsLive \o TailOf(MinTailLen, 1, "Z")) }

PairProducts ==
  { Null, Str(""), Str("platinum-sample-pack"), Str("full-platinum-vault"),
    Str("no-such-product"), Str("constructor") }

InitPair ==
  \E m \in Methods, id \in PairSessionIds, p1 \in PairProducts, p2 \in PairProducts :
    InitOf([r \in { "r1", "r2" } |->
              [method |-> m, session_id |-> id,
               product |-> IF r = "r1" THEN p1 ELSE p2]])

PairSpec == InitPair /\ [][Next]_vars

-----------------------------------------------------------------------------
(* Vocabulary of the properties.                                           *)

Invocations == DOMAIN pc

IsHead(r) == request[r].method = "HEAD"

\* Invocation r has taken step e.
Has(r, e) == \E i \in DOMAIN log[r] : log[r][i] = e

Count(r, e) == Cardinality({ i \in DOMAIN log[r] : log[r][i] = e })

\* The place of step e in the log of invocation r (0 when it is not there).
Place(r, e) ==
  IF Has(r, e) THEN CHOOSE i \in DOMAIN log[r] : log[r][i] = e ELSE 0

Ended(r) == pc[r] \in { "done", "thrown" }

\* The processor answered invocation r with success and a body that parsed,
\* and the handler has run on from there.
Verified(r) ==
  /\ pc[r] \notin { "start", "awaitFetch", "awaitJson" }
  /\ stripeRes[r].net = "up" /\ stripeRes[r].ok /\ stripeRes[r].parses

\* The session record the processor returned to invocation r.
SessionOf(r) == stripeRes[r].json

\* The pattern ^cs_(test|live)_[A-Za-z0-9]{10,}$, read off character by
\* character.
WellFormed(id) ==
  /\ id.t = "string"
  /\ Len(id.s) >= 18
  /\ id.s[1] = "c" /\ id.s[2] = "s" /\ id.s[3] = "_"
  /\ \/ id.s[4] = "t" /\ id.s[5] = "e" /\ id.s[6] = "s" /\ id.s[7] = "t"
     \/ id.s[4] = "l" /\ id.s[5] = "i" /\ id.s[6] = "v" /\ id.s[7] = "e"
  /\ id.s[8] = "_"
  /\ \A i \in 9..Len(id.s) : id.s[i] \in AlNum

\* The session record carries a product slug in its metadata.
CarriesSlug(session) ==
  /\ session.t = "object"
  /\ session.metadata.t = "object"
  /\ session.metadata.product_slug.t = "string"
  /\ session.metadata.product_slug.s # ""

-----------------------------------------------------------------------------
\* C1: storage is read, and a byte stream returned, only after the session id
\* matched the format, the processor was contacted exactly once and answered
\* with success, the record was paid and the effective slug passed the
\* catalog check; the processor is contacted at most once and storage read at
\* most once per request, the processor call before the storage read.
C1_StorageOnlyAfterVerification ==
  \A r \in Invocations :
    /\ Count(r, "fetch") <= 1
    /\ Count(r, "get") <= 1
    /\ \A i \in DOMAIN log[r] :
         log[r][i] = "get" =>
           /\ Count(r, "fetch") = 1
           /\ 0 < Place(r, "format_ok")
           /\ Place(r, "format_ok") < Place(r, "fetch")
           /\ Place(r, "fetch") < Place(r, "fetch_ok")
           /\ Place(r, "fetch_ok") < Place(r, "paid")
           /\ Place(r, "paid") < Place(r, "catalog_ok")
           /\ Place(r, "catalog_ok") < i
    /\ Has(r, "get") =>
         /\ WellFormed(request[r].session_id)
         /\ stripeRes[r].net = "up" /\ stripeRes[r].ok
         /\ SessionOf(r).payment_status = Str("paid")
         /\ KnownProduct(productSlug[r])
    /\ response[r].body.kind = "stream" =>
         /\ Has(r, "get")
         /\ \E e \in vault : e.key = r2Key[r] /\ e.got = "object"

C1_Witness ==
  \E r \in Invocations :
    /\ pc[r] = "done"
    /\ response[r].status = 200
    /\ response[r].body.kind = "stream"

\* C2: when the paid session carries a metadata slug, that slug is the
\* effective slug and decides the storage key, whatever the product
\* parameter; the product parameter is the effective slug only when the
\* session carries none; so two requests for the same session that differ
\* only in the product parameter end with the same response.
C2_MetadataSlugWins ==
  /\ \A r \in Invocations :
       Has(r, "paid") =>
         /\ CarriesSlug(SessionOf(r)) =>
              /\ productSlug[r] = SessionOf(r).metadata.product_slug
              /\ Has(r, "get") =>
                   r2Key[r] = R2Key(SessionOf(r).metadata.product_slug)
         /\ productSlug[r] = request[r].product
              => \/ ~CarriesSlug(SessionOf(r))
                 \/ request[r].product = SessionOf(r).metadata.product_slug
         /\ ~CarriesSlug(SessionOf(r)) => productSlug[r] = request[r].product
  /\ \A r1, r2 \in Invocations :
       /\ Ended(r1) /\ Ended(r2)
       /\ request[r1].method = request[r2].method
       /\ request[r1].session_id = request[r2].session_id
       /\ stripeRes[r1] = stripeRes[r2]
       /\ CarriesSlug(SessionOf(r1))
       => /\ pc[r1] = pc[r2]
          /\ response[r1] = response[r2]

C2_Witness ==
  /\ pc["r1"] = "done" /\ pc["r2"] = "done"
  /\ request["r1"].product = Str("platinum-sample-pack")
  /\ request["r2"].product = Str("no-such-product")
  /\ SessionOf("r1").metadata.product_slug = Str("full-platinum-vault")
  /\ productSlug["r1"] = Str("full-platinum-vault")
  /\ response["r1"].body.kind = "stream"
  /\ response["r2"] = response["r1"]

\* C3: a session id that is absent or does not match the pattern gets 400
\* and neither the processor nor storage is contacted; one that matches is
\* not rejected at this step and the processor is contacted.
C3_SessionIdFormat ==
  \A r \in Invocations :
    pc[r] # "start" =>
      IF WellFormed(request[r].session_id)
      THEN /\ Has(r, "fetch")
           /\ ~Has(r, "InvalidSession")
           /\ pc[r] = "done" => response[r].body # JsonBody({ << "error", "Invalid or missing session" >> })
      ELSE /\ pc[r] = "done"
           /\ response[r].status = 400
           /\ ~Has(r, "fetch")
           /\ ~Has(r, "get")
           /\ stripeRes[r] = NoAnswer
           /\ \A e \in stripe : e.id # request[r].session_id
           /\ r2Key[r] = ""

C3_Witness ==
  \E r \in Invocations :
    /\ request[r].session_id = Str(CsTest \o TailOf(MinTailLen - 1, 0, "a"))
    /\ pc[r] = "done"
    /\ response[r].status = 400

\* C4: when the processor answers with success and a record whose
\* payment_status is not "paid" (or is missing), the response is 402 whatever
\* the product: the catalog check does not decide it and storage is not read.
C4_UnpaidIs402 ==
  \A r \in Invocations :
    /\ Verified(r)
    /\ SessionOf(r).t # "null"
    /\ SessionOf(r).payment_status # Str("paid")
    => /\ pc[r] = "done"
       /\ response[r].status = 402
       /\ ~Has(r, "UnknownProduct")
       /\ ~Has(r, "catalog_ok")
       /\ ~Has(r, "get")
       /\ r2Key[r] = ""

C4_Witness ==
  \E r \in Invocations :
    /\ response[r].status = 402
    /\ SessionOf(r).payment_status = Undefined
    /\ SessionOf(r).t = "object"
    /\ ~CarriesSlug(SessionOf(r))
    /\ request[r].product = Str("no-such-product")

\* C5: for a paid session, an effective slug that is empty or is not one of
\* the 14 catalog keys gets 400, storage is not read and 200 is not returned,
\* for GET and HEAD alike; every catalog key passes the step.
C5_UnknownProductIs400 ==
  \A r \in Invocations :
    Has(r, "paid") =>
      IF productSlug[r].t = "string" /\ productSlug[r].s \in CatalogKeys
      THEN Has(r, "catalog_ok")
      ELSE /\ pc[r] = "done"
           /\ response[r].status = 400
           /\ ~Has(r, "get")

\* C6: the body of an UnknownProduct response is, for GET, a JSON error
\* object with an `available` array of all catalog keys and, for HEAD, empty.
C6_UnknownProductListsCatalog ==
  \A r \in Invocations :
    Has(r, "UnknownProduct") =>
      IF IsHead(r)
      THEN response[r].body = EmptyBody
      ELSE /\ response[r].body.kind = "json"
           /\ \E m \in response[r].body.json : m[1] = "error"
           /\ \E m \in response[r].body.json :
                m[1] = "available" /\ m[2] = CatalogKeys

\* C7: a transport failure of the lookup gives 500, a non-success status
\* gives 403, only a success lets the request go on; a failure of the call
\* never leaves the handler as an exception, and storage is not read in the
\* 403 and 500 cases.
C7_ProcessorOutcomes ==
  \A r \in Invocations :
    stripeRes[r] # NoAnswer =>
      /\ stripeRes[r].net = "down" =>
           /\ pc[r] = "done" /\ response[r].status = 500 /\ ~Has(r, "get")
      /\ stripeRes[r].net = "up" /\ ~stripeRes[r].ok =>
           /\ pc[r] = "done" /\ response[r].status = 403 /\ ~Has(r, "get")
      /\ Has(r, "fetch_ok") => stripeRes[r].net = "up" /\ stripeRes[r].ok
      /\ pc[r] \in { "awaitJson", "awaitGet" } =>
           stripeRes[r].net = "up" /\ stripeRes[r].ok
      /\ response[r].status \in { 403, 500 } => r2Key[r] = ""
      /\ pc[r] = "thrown" =>
           stripeRes[r].net = "up" /\ stripeRes[r].ok /\ stripeRes[r].parses

C7_Witness ==
  \E r \in Invocations :
    /\ stripeRes[r].net = "up" /\ ~stripeRes[r].ok
    /\ pc[r] = "done"
    /\ response[r].status = 403

\* C8: a HEAD request that passes format validation, verification, the
\* payment check and the catalog lookup gets 200 with an empty body and
\* Content-Type application/zip; no HEAD request reads storage, so none
\* gets 404.
C8_HeadNeverReadsStorage ==
  \A r \in Invocations :
    IsHead(r) =>
      /\ ~Has(r, "get")
      /\ pc[r] # "awaitGet"
      /\ r2Key[r] = ""
      /\ response[r].status # 404
      /\ \/ Has(r, "catalog_ok")
         \/ /\ Verified(r)
            /\ WellFormed(request[r].session_id)
            /\ SessionOf(r).payment_status = Str("paid")
            /\ KnownProduct(EffectiveSlug(request[r].product, SessionOf(r)))
         => /\ pc[r] = "done"
            /\ response[r].status = 200
            /\ response[r].body = EmptyBody
            /\ response[r].headers = { << "Content-Type", "application/zip" >> }

C8_Witness ==
  \E r \in Invocations :
    /\ IsHead(r)
    /\ Has(r, "paid")
    /\ pc[r] = "done"
    /\ response[r].status = 200

\* C9: a GET request that passes the catalog check with effective slug s
\* reads the one key "products/" followed by the catalog filename of s; if
\* storage reports the key absent the response is 404, otherwise 200 with
\* the object's stream, Content-Type application/zip, Cache-Control no-store
\* and a Content-Disposition attachment naming that catalog filename.
C9_StorageKeyIsCatalogFile ==
  \A r \in Invocations :
    ~IsHead(r) /\ Has(r, "catalog_ok") =>
      /\ productSlug[r].s \in CatalogKeys
      /\ Count(r, "get") = 1
      /\ r2Key[r] = "products/" \o CatalogFile(productSlug[r].s)
      /\ \A e \in vault :
           e.key = r2Key[r] /\ pc[r] = "done" =>
             IF e.got = "null"
             THEN response[r].status = 404
             ELSE /\ response[r].status = 200
                  /\ response[r].body = StreamBody(r2Key[r])
                  /\ response[r].headers =
                       { << "Content-Type", "application/zip" >>,
                         << "Cache-Control", "no-store" >>,
                         << "Content-Disposition",
                            "attachment; filename=\"" \o
                              CatalogFile(productSlug[r].s) \o "\"" >> }

\* The status of each kind of error.
ErrorStatus(kind) ==
  CASE kind = "InvalidSession" -> 400
    [] kind = "SessionNotFound" -> 403
    [] kind = "VerificationFailed" -> 500
    [] kind = "PaymentIncomplete" -> 402
    [] kind = "UnknownProduct" -> 400
    [] kind = "ProductNotFound" -> 404

ErrorKinds ==
  { "InvalidSession", "SessionNotFound", "VerificationFailed",
    "PaymentIncomplete", "UnknownProduct", "ProductNotFound" }

\* C10: every invocation ends with exactly one response and never with an
\* unhandled exception: the 200 success, or an error whose status is one of
\* 400, 402, 403, 404, 500, each error kind with its one status, the body a
\* JSON error object for GET and empty for HEAD.
C10_AlwaysOneResponse ==
  \A r \in Invocations :
    /\ pc[r] # "thrown"
    /\ pc[r] = "done" =>
         \/ /\ response[r].status = 200
            /\ response[r].body.kind = IF IsHead(r) THEN "empty" ELSE "stream"
         \/ \E k \in ErrorKinds :
              /\ Has(r, k)
              /\ response[r].status = ErrorStatus(k)
              /\ response[r].body.kind = IF IsHead(r) THEN "empty" ELSE "json"

====
